---- MODULE Spec2Model ----
(***************************************************************************)
(* Realtime speech bridge: SimpleRealtime (src/utils.py), the capture      *)
(* recorder StreamingAudioRecorder (src/utils.py) and the playback buffer  *)
(* with its audio callback (src/app.py).                                   *)
(*                                                                         *)
(* Execution contexts:                                                     *)
(*   - the event-loop thread (app.py create_loop): runs every coroutine    *)
(*     step of connect / disconnect / _message_handler and every task      *)
(*     created by send(); a step is atomic from one await to the next;     *)
(*   - the caller thread (the script thread): calls send() directly and    *)
(*     connect() / disconnect() through run_async, which blocks it until   *)
(*     the coroutine is finished;                                          *)
(*   - the playback thread: runs py_audio_callback;                        *)
(*   - the capture thread: runs StreamingAudioRecorder.callback.           *)
(***************************************************************************)
EXTENDS Integers, Sequences, FiniteSets, TLC

\* ------------------------------------------------------------- bounds
MaxConn == 2        \* connections opened in one run
MaxSend == 2        \* client events accepted by send() in one run
MaxRecv == 2        \* server messages delivered in one run
MaxPlay == 3        \* frames the playback callback returns in one run
MaxCount == 2       \* largest frame_count of a playback callback
MaxCapture == 3     \* frames the capture callback is given in one run
MaxChunks == 4      \* calls of get_audio_chunk in one run

Caller == 0
Tasks  == 1..MaxConn            \* task i is the handler created with connection i
Agents == {Caller} \cup Tasks   \* coroutines that may run disconnect()

\* ------------------------------------------------------------- data
T_TRANSCRIPT == "response.audio_transcript.delta"
T_AUDIO      == "response.audio.delta"
T_AUDIODONE  == "response.audio.done"
T_OTHER      == "session.created"
NoType       == "None"          \* event.get("type") of an event without a type

Msg(json, type, present, text, bytes) ==
    [json |-> json, type |-> type, present |-> present, text |-> text, bytes |-> bytes]

\* One message that json.loads rejects.
Malformed == Msg(FALSE, NoType, FALSE, <<>>, <<>>)

TranscriptMessages ==
    { Msg(TRUE, T_TRANSCRIPT, TRUE, <<"a">>, <<>>),
      Msg(TRUE, T_TRANSCRIPT, TRUE, <<"b">>, <<>>) }

AudioMessages ==
    { Msg(TRUE, T_AUDIO, TRUE, <<>>, <<1, 0>>),
      Msg(TRUE, T_AUDIO, TRUE, <<>>, <<0, 1, 0, 0>>) }

IgnoredMessages ==
    { Msg(TRUE, T_AUDIODONE, FALSE, <<>>, <<>>),
      Msg(TRUE, T_OTHER, FALSE, <<>>, <<>>) }

\* Events whose handling raises: no type, no delta, a payload of odd length.
RaisingMessages ==
    { Msg(TRUE, NoType, FALSE, <<>>, <<>>),
      Msg(TRUE, T_TRANSCRIPT, FALSE, <<>>, <<>>),
      Msg(TRUE, T_AUDIO, FALSE, <<>>, <<>>),
      Msg(TRUE, T_AUDIO, TRUE, <<>>, <<1>>) }

ServerMessages ==
    TranscriptMessages \cup AudioMessages \cup IgnoredMessages
        \cup RaisingMessages \cup {Malformed}

\* The types of the finite message set that contain the text "response.audio".
ContainsResponseAudio(type) == type \in {T_TRANSCRIPT, T_AUDIO, T_AUDIODONE}

\* Calls of send(): the event name and the data argument, which is None, a
\* dictionary ("dict") or a truthy value that is no dictionary ("bad").
SendArgs ==
    { [type |-> "input_audio_buffer.append", data |-> "dict"],
      [type |-> "input_audio_buffer.commit", data |-> "none"],
      [type |-> "input_audio_buffer.commit", data |-> "bad"] }

VARIABLES
    ws,             \* self.ws: 0 (None) or the connection's number
    conn,           \* per connection: "NONE" (not opened), "OPEN", "CLOSING" (close()
                    \* was called on it), "PEERCLOSING" (the peer's close frame
                    \* arrived), "CLOSED"
    handlerTask,    \* self._message_handler_task: 0 (None) or the task's number
    pc,             \* per agent: where its coroutine is suspended; a handler task
                    \* is "new" (created, not yet run), at "next" (between two
                    \* passes of its loop), "loop" (asleep at utils.py:65), "recv"
                    \* (utils.py:69), in disconnect(), or over
    recvOn,         \* per task: the connection its pending recv() is bound to
    closeOn,        \* per agent: the connection whose close() it awaits
    awaitOn,        \* per agent: the task it awaits in disconnect()
    cancelReq,      \* per task: cancel() was called and is not yet delivered
    transcript,     \* self.transcript
    logs,           \* self.logs: <<direction, event>>
    debug,          \* self.debug
    ready,          \* tasks created by send(), in the loop's FIFO ready queue
    pending,        \* the event send() has logged and not yet scheduled
    wire,           \* frames written, <<connection, event>>, in order
    sent,           \* history: events whose task send() created, <<connection, event>>
    got,            \* history: the messages recv() returned, in order
    outcome         \* what the step just taken returned or raised: [op, res]; a
                    \* disconnect() the handler ran is op "handler_disconnect"

connVars == <<ws, conn, handlerTask, pc, recvOn, closeOn, awaitOn, cancelReq>>
dataVars == <<transcript, logs, debug>>
sendVars == <<ready, pending, wire, sent>>
clientVars == <<connVars, dataVars, sendVars, got, outcome>>

VARIABLES
    audio_buffer,   \* app.py:25, the samples waiting to be played
    buffer_lock,    \* app.py:26: "free", or the thread holding it, "loop" or "play"
    apc,            \* the event-loop thread inside audio_buffer_cb: "idle", "acquire", "concat", "store"
    achunk,         \* pcm_audio_chunk, the argument of audio_buffer_cb
    atmp,           \* the array np.concatenate built, not yet stored
    ppc,            \* the playback thread inside py_audio_callback: "idle", "cs", "out"
    pcount,         \* frame_count of the running callback
    pdata,          \* data, the frame the running callback returns
    appended,       \* history: the chunks appended, in lock-acquisition order, concatenated
    played          \* history: the frames returned: data, whether taken from the
                    \* buffer (real), and the buffer at the call (had)

playVars == <<audio_buffer, buffer_lock, apc, achunk, atmp, ppc, pcount, pdata,
              appended, played>>

VARIABLES
    audio_queue,    \* utils.py:135, the frames captured and not yet taken
    is_recording,   \* utils.py:136
    stream,         \* utils.py:138: "none" or "open"
    captured,       \* history: the frames the capture callback was given, converted
    chunks          \* history: what each get_audio_chunk call returned

capVars == <<audio_queue, is_recording, stream, captured, chunks>>

\* The orchestrator's session state, app.py:28-39
VARIABLES
    client,         \* app.py:34-35 and where initialize_client (app.py:137-159) is:
                    \* "none", "connecting", "check", "update", "ready"
    connected,      \* app.py:31-32, st.session_state.connected
    connection_error,   \* app.py:33: "None" or the message stored
    recording,      \* app.py:38-39, st.session_state.recording
    script          \* where the script thread is in start_recording,
                    \* stop_recording or audio_recorder (app.py:166-200): "idle",
                    \* or the line it is at
appVars == <<client, connected, connection_error, recording, script>>

vars == <<clientVars, playVars, capVars, appVars>>

\* ------------------------------------------------------------- client
\* utils.py:29
is_connected == ws # 0 /\ conn[ws] = "OPEN"

\* utils.py:32  (the timestamp is left out)
log_event(l, direction, event) == IF debug THEN Append(l, <<direction, event>>) ELSE l

Finished(t) == pc[t] \in {"done", "cancelled"}

Result(op, res) == [op |-> op, res |-> res]
NoResult == Result("none", "none")

\* The event-loop thread runs one step at a time: no other step of the loop
\* runs while it is inside audio_buffer_cb (where it may be blocked on
\* buffer_lock), nor between the end of one pass of the handler's loop and
\* the recv() or sleep() of the next (pc "next": no await lies between them).
LoopFree == apc = "idle" /\ \A t \in Tasks : pc[t] # "next"

\* run_async (app.py:118-119) returns to the caller only when its coroutine is
\* over, so what the caller submits next is queued behind the task connect()
\* created (utils.py:55) and runs after that task's first step.
Submit == LoopFree /\ \A t \in Tasks : pc[t] # "new"

\* np.frombuffer(decoded, dtype=np.int16): little-endian pairs of bytes
Int16(lo, hi) == LET u == lo + 256 * hi IN IF u >= 32768 THEN u - 65536 ELSE u
FromBuffer(bytes) ==
    [i \in 1..(Len(bytes) \div 2) |-> Int16(bytes[2 * i - 1], bytes[2 * i])]

InitClient ==
    /\ ws = 0
    /\ conn = [c \in 1..MaxConn |-> "NONE"]
    /\ handlerTask = 0
    /\ pc = [a \in Agents |-> IF a = Caller THEN "idle" ELSE "none"]
    /\ recvOn = [t \in Tasks |-> 0]
    /\ closeOn = [a \in Agents |-> 0]
    /\ awaitOn = [a \in Agents |-> 0]
    /\ cancelReq = [t \in Tasks |-> FALSE]
    /\ transcript = <<>>
    /\ logs = <<>>
    /\ debug = TRUE
    /\ ready = <<>>
    /\ pending = <<>>
    /\ wire = <<>>
    /\ sent = <<>>
    /\ got = <<>>
    /\ outcome = NoResult

InitPlay ==
    /\ audio_buffer = <<>>
    /\ buffer_lock = "free"
    /\ apc = "idle"
    /\ achunk = <<>>
    /\ atmp = <<>>
    /\ ppc = "idle"
    /\ pcount = 0
    /\ pdata = <<>>
    /\ appended = <<>>
    /\ played = <<>>

InitCapture ==
    /\ audio_queue = <<>>
    /\ is_recording = FALSE
    /\ stream = "none"
    /\ captured = <<>>
    /\ chunks = <<>>

\* app.py:28-39
InitApp ==
    /\ client = "none"
    /\ connected = FALSE
    /\ connection_error = "None"
    /\ recording = FALSE
    /\ script = "idle"

Init == InitClient /\ InitPlay /\ InitCapture /\ InitApp

\* ---- disconnect(), utils.py:80-91, as run by agent a: the caller, or a
\* handler task on its error path.  It suspends in close() ("dclose") and in
\* the await of the handler task ("dawait", or "dself" when that is itself).

\* utils.py:90-91
DisconnectFinish(a) ==
    /\ handlerTask' = 0
    /\ pc' = [pc EXCEPT ![a] = IF a = Caller THEN "idle" ELSE "done"]
    /\ outcome' = Result(IF a = Caller THEN "disconnect" ELSE "handler_disconnect", "ok")

\* utils.py:84-91.  cancel() of a finished task does nothing and awaiting it
\* returns at once; cancel() of the running task itself marks it and the
\* await of itself is answered with CancelledError on its next step.
DisconnectTaskPart(a) ==
    LET h == handlerTask IN
    IF h = 0 \/ (h # a /\ Finished(h))
    THEN DisconnectFinish(a) /\ UNCHANGED <<cancelReq, awaitOn>>
    ELSE /\ cancelReq' = [cancelReq EXCEPT ![h] = TRUE]
         /\ pc' = [pc EXCEPT ![a] = IF h = a THEN "dself" ELSE "dawait"]
         /\ awaitOn' = [awaitOn EXCEPT ![a] = IF h = a THEN 0 ELSE h]
         /\ outcome' = NoResult
         /\ UNCHANGED handlerTask

\* utils.py:81-82: close() starts the closing handshake and suspends
DisconnectBegin(a) ==
    IF ws # 0
    THEN /\ conn' = [conn EXCEPT ![ws] = IF @ = "OPEN" THEN "CLOSING" ELSE @]
         /\ closeOn' = [closeOn EXCEPT ![a] = ws]
         /\ pc' = [pc EXCEPT ![a] = "dclose"]
         /\ outcome' = NoResult
         /\ UNCHANGED <<ws, handlerTask, cancelReq, awaitOn>>
    ELSE /\ DisconnectTaskPart(a)
         /\ UNCHANGED <<ws, conn, closeOn>>

\* utils.py:82-83: close() has returned
DisconnectClosed(a) ==
    /\ LoopFree
    /\ pc[a] = "dclose"
    /\ a \in Tasks => ~cancelReq[a]
    /\ conn[closeOn[a]] = "CLOSED"
    /\ ws' = 0
    /\ closeOn' = [closeOn EXCEPT ![a] = 0]
    /\ DisconnectTaskPart(a)
    /\ UNCHANGED <<conn, recvOn, dataVars, sendVars, got, playVars, capVars>>
    /\ UNCHANGED appVars

\* utils.py:87-90: the awaited task has finished
DisconnectAwaited(a) ==
    /\ LoopFree
    /\ pc[a] = "dawait"
    /\ a \in Tasks => ~cancelReq[a]
    /\ Finished(awaitOn[a])
    /\ DisconnectFinish(a)
    /\ awaitOn' = [awaitOn EXCEPT ![a] = 0]
    /\ UNCHANGED <<ws, conn, recvOn, closeOn, cancelReq, dataVars, sendVars, got,
                   playVars, capVars>>
    /\ UNCHANGED appVars

\* utils.py:85-90 run by the handler task on itself
DisconnectSelfResume(t) ==
    /\ LoopFree
    /\ pc[t] = "dself"
    /\ DisconnectFinish(t)
    /\ cancelReq' = [cancelReq EXCEPT ![t] = FALSE]
    /\ UNCHANGED <<ws, conn, recvOn, closeOn, awaitOn, dataVars, sendVars, got,
                   playVars, capVars>>
    /\ UNCHANGED appVars

\* The CancelledError of cancel() (utils.py:85) reaches task t at its await:
\* in the loop and in close() it ends the task, at utils.py:88 it is caught.
CancelDeliver(t) ==
    /\ LoopFree
    /\ cancelReq[t]
    /\ pc[t] \in {"new", "loop", "recv", "dclose", "dawait"}
    /\ cancelReq' = [cancelReq EXCEPT ![t] = FALSE]
    /\ IF pc[t] = "dawait"
       THEN DisconnectFinish(t)
       ELSE /\ pc' = [pc EXCEPT ![t] = "cancelled"]
            /\ outcome' = NoResult
            /\ UNCHANGED handlerTask
    /\ recvOn' = [recvOn EXCEPT ![t] = 0]
    /\ closeOn' = [closeOn EXCEPT ![t] = 0]
    /\ awaitOn' = [awaitOn EXCEPT ![t] = 0]
    /\ UNCHANGED <<ws, conn, dataVars, sendVars, got, playVars, capVars>>
    /\ UNCHANGED appVars

\* The caller runs disconnect() (run_async, app.py:114)
DisconnectCall ==
    /\ Submit
    /\ pc[Caller] = "idle"
    /\ DisconnectBegin(Caller)
    /\ UNCHANGED <<recvOn, dataVars, sendVars, got, playVars, capVars>>
    /\ UNCHANGED appVars

\* ---- connect(), utils.py:41-59
\* utils.py:42-52
DoConnectCall ==
    /\ Submit
    /\ pc[Caller] = "idle"
    /\ IF is_connected
       THEN /\ outcome' = Result("connect", "AlreadyConnected")
            /\ UNCHANGED pc
       ELSE /\ \E c \in 1..MaxConn : conn[c] = "NONE"
            /\ pc' = [pc EXCEPT ![Caller] = "connecting"]
            /\ outcome' = NoResult
    /\ UNCHANGED <<ws, conn, handlerTask, recvOn, closeOn, awaitOn, cancelReq,
                   dataVars, sendVars, got, playVars, capVars>>

ConnectCall == DoConnectCall /\ UNCHANGED appVars

\* utils.py:50-59: the handshake succeeded
DoConnectOk ==
    /\ LoopFree
    /\ pc[Caller] = "connecting"
    /\ LET c == CHOOSE k \in 1..MaxConn :
                    conn[k] = "NONE" /\ \A j \in 1..(k - 1) : conn[j] # "NONE"
       IN /\ conn' = [conn EXCEPT ![c] = "OPEN"]
          /\ ws' = c
          /\ handlerTask' = c
          /\ pc' = [pc EXCEPT ![Caller] = "idle", ![c] = "new"]
    /\ outcome' = Result("connect", "ok")
    /\ UNCHANGED <<recvOn, closeOn, awaitOn, cancelReq, dataVars, sendVars, got,
                   playVars, capVars>>

ConnectOk == DoConnectOk /\ UNCHANGED appVars

\* utils.py:50: websockets.connect raises
DoConnectFail ==
    /\ LoopFree
    /\ pc[Caller] = "connecting"
    /\ pc' = [pc EXCEPT ![Caller] = "idle"]
    /\ outcome' = Result("connect", "ConnectFailure")
    /\ UNCHANGED <<ws, conn, handlerTask, recvOn, closeOn, awaitOn, cancelReq,
                   dataVars, sendVars, got, playVars, capVars>>

ConnectFail == DoConnectFail /\ UNCHANGED appVars

\* ---- the connection, as the peer and the network change it
\* the peer starts the closing handshake
ServerClose(c) ==
    /\ LoopFree
    /\ conn[c] = "OPEN"
    /\ conn' = [conn EXCEPT ![c] = "PEERCLOSING"]
    /\ outcome' = NoResult
    /\ UNCHANGED <<ws, handlerTask, pc, recvOn, closeOn, awaitOn, cancelReq,
                   dataVars, sendVars, got, playVars, capVars>>
    /\ UNCHANGED appVars

\* the closing handshake ends, or the transport is lost
ConnectionLost(c) ==
    /\ LoopFree
    /\ conn[c] \in {"OPEN", "CLOSING", "PEERCLOSING"}
    /\ conn' = [conn EXCEPT ![c] = "CLOSED"]
    /\ outcome' = NoResult
    /\ UNCHANGED <<ws, handlerTask, pc, recvOn, closeOn, awaitOn, cancelReq,
                   dataVars, sendVars, got, playVars, capVars>>
    /\ UNCHANGED appVars

\* ---- send(), utils.py:109-123, on the caller thread
\* utils.py:110-119
DoSendCall(arg) ==
    /\ pc[Caller] = "idle"
    /\ IF ~is_connected
       THEN /\ outcome' = Result("send", "NotConnected")
            /\ UNCHANGED <<pc, logs, pending>>
       ELSE IF arg.data = "bad"
       THEN /\ outcome' = Result("send", "InvalidPayload")
            /\ UNCHANGED <<pc, logs, pending>>
       ELSE /\ Len(sent) < MaxSend
            /\ logs' = log_event(logs, "client", arg)
            /\ pending' = <<arg>>
            /\ pc' = [pc EXCEPT ![Caller] = "sending"]
            /\ outcome' = NoResult
    /\ UNCHANGED <<ws, conn, handlerTask, recvOn, closeOn, awaitOn, cancelReq,
                   transcript, debug, ready, wire, sent, got, playVars, capVars>>

SendCall(arg) == DoSendCall(arg) /\ UNCHANGED appVars

\* utils.py:121-123: self.ws is read again; the task is put on the ready queue
DoSendSchedule ==
    /\ pc[Caller] = "sending"
    /\ pc' = [pc EXCEPT ![Caller] = "idle"]
    /\ pending' = <<>>
    /\ IF ws = 0
       THEN /\ outcome' = Result("send", "AttributeError")
            /\ UNCHANGED <<ready, sent>>
       ELSE /\ ready' = Append(ready, [conn |-> ws, event |-> pending[1]])
            /\ sent' = Append(sent, <<ws, pending[1]>>)
            /\ outcome' = Result("send", "ok")
    /\ UNCHANGED <<ws, conn, handlerTask, recvOn, closeOn, awaitOn, cancelReq,
                   dataVars, wire, got, playVars, capVars>>

SendSchedule == DoSendSchedule /\ UNCHANGED appVars

\* A loop that may start any waiting task next.
ReadyPickAny == 1..Len(ready)

\* The loop starts the tasks of create_task (utils.py:121) in creation order.
ReadyPick == {1}

\* ws.send (utils.py:121) writes the frame only on an open connection and
\* raises ConnectionClosed in the task otherwise.
SendWrites(c) == conn[c] = "OPEN"

RemoveAt(s, i) == SubSeq(s, 1, i - 1) \o SubSeq(s, i + 1, Len(s))

\* One task created by send() runs: utils.py:121
RunSendTask ==
    /\ LoopFree
    /\ ready # <<>>
    /\ \E i \in ReadyPick :
          /\ i <= Len(ready)
          /\ wire' = IF SendWrites(ready[i].conn)
                     THEN Append(wire, <<ready[i].conn, ready[i].event>>)
                     ELSE wire
          /\ ready' = RemoveAt(ready, i)
    /\ outcome' = NoResult
    /\ UNCHANGED <<connVars, dataVars, pending, sent, got, playVars, capVars>>
    /\ UNCHANGED appVars

\* ---- _message_handler(), utils.py:61-78, as task t
\* utils.py:76-78: an exception that left the loop; disconnect() is awaited
ErrorPath(t) == DisconnectBegin(t)

\* A second recv() on a connection some other task is already reading
\* raises RuntimeError in the one that comes second.
RecvBusy(t, c) == \E u \in Tasks \ {t} : pc[u] = "recv" /\ recvOn[u] = c

\* utils.py:63-69: the top of the loop reads self.ws and starts recv()
HandlerLoop(t) ==
    /\ apc = "idle"
    /\ pc[t] = "next" \/ (pc[t] \in {"new", "loop"} /\ LoopFree)
    /\ ~cancelReq[t]
    /\ IF ws = 0
       THEN /\ pc' = [pc EXCEPT ![t] = "loop"]
            /\ outcome' = NoResult
            /\ UNCHANGED <<ws, conn, handlerTask, recvOn, closeOn, awaitOn,
                           cancelReq>>
       ELSE IF RecvBusy(t, ws)
       THEN ErrorPath(t) /\ UNCHANGED recvOn
       ELSE /\ pc' = [pc EXCEPT ![t] = "recv"]
            /\ recvOn' = [recvOn EXCEPT ![t] = ws]
            /\ outcome' = NoResult
            /\ UNCHANGED <<ws, conn, handlerTask, closeOn, awaitOn, cancelReq>>
    /\ UNCHANGED <<dataVars, sendVars, got, playVars, capVars>>
    /\ UNCHANGED appVars

\* utils.py:72-73: no message within the timeout
RecvTimeout(t) ==
    /\ LoopFree
    /\ pc[t] = "recv"
    /\ ~cancelReq[t]
    /\ conn[recvOn[t]] # "CLOSED"
    /\ pc' = [pc EXCEPT ![t] = "next"]
    /\ recvOn' = [recvOn EXCEPT ![t] = 0]
    /\ outcome' = NoResult
    /\ UNCHANGED <<ws, conn, handlerTask, closeOn, awaitOn, cancelReq,
                   dataVars, sendVars, got, playVars, capVars>>
    /\ UNCHANGED appVars

\* utils.py:74-75: recv() raises ConnectionClosed
RecvClosed(t) ==
    /\ LoopFree
    /\ pc[t] = "recv"
    /\ ~cancelReq[t]
    /\ conn[recvOn[t]] = "CLOSED"
    /\ pc' = [pc EXCEPT ![t] = "done"]
    /\ recvOn' = [recvOn EXCEPT ![t] = 0]
    /\ outcome' = NoResult
    /\ UNCHANGED <<ws, conn, handlerTask, closeOn, awaitOn, cancelReq,
                   dataVars, sendVars, got, playVars, capVars>>
    /\ UNCHANGED appVars

\* What receive() and handle_audio() do with a decoded event (utils.py:93-107):
\* "raise", "transcript", "audio" or "ignore".
Dispatch(m) ==
    IF m.type = NoType THEN "raise"                       \* utils.py:105
    ELSE IF ~ContainsResponseAudio(m.type) THEN "ignore"  \* utils.py:105
    ELSE IF m.type = T_TRANSCRIPT                         \* utils.py:94-95
    THEN (IF m.present THEN "transcript" ELSE "raise")
    ELSE IF m.type = T_AUDIO                              \* utils.py:97-101
    THEN (IF m.present /\ Len(m.bytes) % 2 = 0 THEN "audio" ELSE "raise")
    ELSE "ignore"

\* A transcript that puts the newest delta first.
PrependTranscript(t, delta) == delta \o t

\* utils.py:95
AppendTranscript(t, delta) == t \o delta

\* utils.py:69-71: recv() returns message m; json.loads; receive()
RecvMessage(t, m) ==
    /\ LoopFree
    /\ pc[t] = "recv"
    /\ ~cancelReq[t]
    /\ conn[recvOn[t]] \in {"OPEN", "CLOSING"}
    /\ Len(got) < MaxRecv
    /\ got' = Append(got, m)
    /\ recvOn' = [recvOn EXCEPT ![t] = 0]
    /\ IF ~m.json
       THEN /\ ErrorPath(t)
            /\ UNCHANGED <<logs, transcript, apc, achunk>>
       ELSE /\ logs' = log_event(logs, "server", m)
            /\ LET d == Dispatch(m) IN
               /\ IF d = "raise"
                  THEN ErrorPath(t)
                  ELSE /\ pc' = [pc EXCEPT ![t] = "next"]
                       /\ outcome' = NoResult
                       /\ UNCHANGED <<ws, conn, handlerTask, closeOn, awaitOn,
                                      cancelReq>>
               /\ transcript' = IF d = "transcript"
                                THEN AppendTranscript(transcript, m.text)
                                ELSE transcript
               /\ IF d = "audio"
                  THEN /\ apc' = "acquire"
                       /\ achunk' = FromBuffer(m.bytes)
                  ELSE UNCHANGED <<apc, achunk>>
    /\ UNCHANGED <<debug, sendVars,
                   audio_buffer, buffer_lock, atmp, ppc, pcount, pdata, appended, played, capVars>>
    /\ UNCHANGED appVars

\* ---- the playback buffer, app.py:42-48 and app.py:67-76
\* A lock that never keeps anyone out.
NoLock == TRUE

\* buffer_lock can be taken
LockFree == buffer_lock = "free"

\* app.py:47: `with buffer_lock` entered by the event-loop thread
AppendAcquire ==
    /\ apc = "acquire"
    /\ LockFree
    /\ buffer_lock' = "loop"
    /\ apc' = "concat"
    /\ appended' = appended \o achunk
    /\ outcome' = NoResult
    /\ UNCHANGED <<connVars, dataVars, sendVars, got, capVars, audio_buffer, achunk, atmp, ppc, pcount, pdata, played>>
    /\ UNCHANGED appVars

\* An append that puts the new chunk in front of the buffered samples.
AppendConcatFront ==
    /\ apc = "concat"
    /\ atmp' = achunk \o audio_buffer
    /\ apc' = "store"
    /\ outcome' = NoResult
    /\ UNCHANGED <<connVars, dataVars, sendVars, got, capVars, audio_buffer, buffer_lock, achunk, ppc, pcount, pdata,
                   appended, played>>
    /\ UNCHANGED appVars

\* app.py:48: np.concatenate([audio_buffer, pcm_audio_chunk])
AppendConcat ==
    /\ apc = "concat"
    /\ atmp' = audio_buffer \o achunk
    /\ apc' = "store"
    /\ outcome' = NoResult
    /\ UNCHANGED <<connVars, dataVars, sendVars, got, capVars, audio_buffer, buffer_lock, achunk, ppc, pcount, pdata,
                   appended, played>>
    /\ UNCHANGED appVars

\* app.py:48: the assignment to audio_buffer, and the end of the with block
AppendStore ==
    /\ apc = "store"
    /\ audio_buffer' = atmp
    /\ buffer_lock' = "free"
    /\ apc' = "idle"
    /\ achunk' = <<>>
    /\ atmp' = <<>>
    /\ outcome' = NoResult
    /\ UNCHANGED <<connVars, dataVars, sendVars, got, capVars, ppc, pcount, pdata, appended, played>>
    /\ UNCHANGED appVars

Zeros(n) == [i \in 1..n |-> 0]

\* app.py:71: the branch of py_audio_callback that takes samples
HasFrame(buf, count) == Len(buf) >= count

\* app.py:72 and app.py:75: data
FrameData(buf, count) ==
    IF HasFrame(buf, count) THEN SubSeq(buf, 1, count) ELSE Zeros(count)

\* app.py:73: audio_buffer after the callback
FrameRest(buf, count) ==
    IF HasFrame(buf, count) THEN SubSeq(buf, count + 1, Len(buf)) ELSE buf

\* app.py:70: `with buffer_lock` entered by the playback thread
ConsumeAcquire(count) ==
    /\ ppc = "idle"
    /\ Len(played) < MaxPlay
    /\ LockFree
    /\ buffer_lock' = "play"
    /\ ppc' = "cs"
    /\ pcount' = count
    /\ outcome' = NoResult
    /\ UNCHANGED <<connVars, dataVars, sendVars, got, capVars, audio_buffer, apc, achunk, atmp, pdata, appended, played>>
    /\ UNCHANGED appVars

\* app.py:71-75
ConsumeBody ==
    /\ ppc = "cs"
    /\ pdata' = FrameData(audio_buffer, pcount)
    /\ audio_buffer' = FrameRest(audio_buffer, pcount)
    /\ played' = Append(played, [real |-> HasFrame(audio_buffer, pcount),
                                 data |-> FrameData(audio_buffer, pcount),
                                 had |-> audio_buffer])
    /\ ppc' = "out"
    /\ outcome' = NoResult
    /\ UNCHANGED <<connVars, dataVars, sendVars, got, capVars, buffer_lock, apc, achunk, atmp, pcount, appended>>
    /\ UNCHANGED appVars

\* app.py:76: the with block ends and data is returned
ConsumeReturn ==
    /\ ppc = "out"
    /\ buffer_lock' = "free"
    /\ ppc' = "idle"
    /\ pcount' = 0
    /\ pdata' = <<>>
    /\ outcome' = NoResult
    /\ UNCHANGED <<connVars, dataVars, sendVars, got, capVars, audio_buffer, apc, achunk, atmp, appended, played>>
    /\ UNCHANGED appVars

\* ---- StreamingAudioRecorder, utils.py:126-181
\* Buffers the input device hands to the callback (16-bit samples, so an
\* even number of bytes).
CaptureInputs == { <<1, 0>>, <<0, 1>> }

\* A start_recording without its first two lines: it opens a stream whether
\* or not one is open.
RecorderStartAgain(deviceOk) ==
    /\ pc[Caller] = "idle"
    /\ IF ~deviceOk
       THEN /\ outcome' = Result("start_recording", "DeviceFailure")
            /\ UNCHANGED <<stream, is_recording>>
       ELSE /\ stream' = "open"
            /\ is_recording' = TRUE
            /\ outcome' = Result("start_recording", "ok")
    /\ UNCHANGED <<connVars, dataVars, sendVars, got, playVars, audio_queue,
                   captured, chunks>>

\* utils.py:149-162; p.open raises when the device cannot be opened
DoRecorderStart(deviceOk) ==
    /\ pc[Caller] = "idle"
    /\ IF is_recording
       THEN /\ outcome' = Result("start_recording", "returned")
            /\ UNCHANGED <<stream, is_recording>>
       ELSE IF ~deviceOk
       THEN /\ outcome' = Result("start_recording", "DeviceFailure")
            /\ UNCHANGED <<stream, is_recording>>
       ELSE /\ stream' = "open"
            /\ is_recording' = TRUE
            /\ outcome' = Result("start_recording", "ok")
    /\ UNCHANGED <<connVars, dataVars, sendVars, got, playVars, audio_queue,
                   captured, chunks>>

RecorderStart(deviceOk) == DoRecorderStart(deviceOk) /\ UNCHANGED appVars

\* utils.py:164-169
DoRecorderStop ==
    /\ pc[Caller] = "idle"
    /\ IF is_recording /\ stream # "none"
       THEN /\ stream' = "none"
            /\ is_recording' = FALSE
       ELSE UNCHANGED <<stream, is_recording>>
    /\ outcome' = Result("stop_recording", "ok")
    /\ UNCHANGED <<connVars, dataVars, sendVars, got, playVars, audio_queue,
                   captured, chunks>>

RecorderStop == DoRecorderStop /\ UNCHANGED appVars

\* utils.py:140-147, on the capture thread, while the stream is open
CaptureCallback(in_data) ==
    /\ stream = "open"
    /\ Len(captured) < MaxCapture
    /\ audio_queue' = Append(audio_queue, FromBuffer(in_data))
    /\ captured' = Append(captured, FromBuffer(in_data))
    /\ outcome' = NoResult
    /\ UNCHANGED <<connVars, dataVars, sendVars, got, playVars, is_recording,
                   stream, chunks>>
    /\ UNCHANGED appVars

\* A queue that hands out the newest frame.
QueueTakeNewest(q) == Len(q)

\* queue.Queue.get_nowait (utils.py:173) takes the oldest frame
QueueTake(q) == 1

\* An entry of the history chunks: the frame returned, or None (none), with
\* the queue's length and is_recording at the call.
Chunk(frame) ==
    [none |-> FALSE, frame |-> frame, queued |-> Len(audio_queue), rec |-> is_recording]
NoChunk ==
    [none |-> TRUE, frame |-> <<>>, queued |-> Len(audio_queue), rec |-> is_recording]

\* utils.py:171-175
DoGetAudioChunk ==
    /\ pc[Caller] = "idle"
    /\ Len(chunks) < MaxChunks
    /\ IF audio_queue # <<>>
       THEN /\ chunks' = Append(chunks, Chunk(audio_queue[QueueTake(audio_queue)]))
            /\ audio_queue' = RemoveAt(audio_queue, QueueTake(audio_queue))
       ELSE /\ chunks' = Append(chunks, NoChunk)
            /\ UNCHANGED audio_queue
    /\ outcome' = NoResult
    /\ UNCHANGED <<connVars, dataVars, sendVars, got, playVars, is_recording,
                   stream, captured>>

GetAudioChunk == DoGetAudioChunk /\ UNCHANGED appVars

\* The steps of the connection's life: connect, disconnect, the peer and the
\* handler, with the server messages taken from M.
NextLife(M) ==
    \/ ConnectCall
    \/ ConnectOk
    \/ ConnectFail
    \/ DisconnectCall
    \/ \E a \in Agents : DisconnectClosed(a)
    \/ \E a \in Agents : DisconnectAwaited(a)
    \/ \E t \in Tasks : DisconnectSelfResume(t)
    \/ \E t \in Tasks : CancelDeliver(t)
    \/ \E c \in 1..MaxConn : ServerClose(c)
    \/ \E c \in 1..MaxConn : ConnectionLost(c)
    \/ \E t \in Tasks : HandlerLoop(t)
    \/ \E t \in Tasks : RecvTimeout(t)
    \/ \E t \in Tasks : RecvClosed(t)
    \/ \E t \in Tasks, m \in M : RecvMessage(t, m)

NextSend ==
    \/ \E arg \in SendArgs : SendCall(arg)
    \/ SendSchedule
    \/ RunSendTask

NextAppend ==
    \/ AppendAcquire
    \/ AppendConcat
    \/ AppendStore

NextConsume ==
    \/ \E count \in 1..MaxCount : ConsumeAcquire(count)
    \/ ConsumeBody
    \/ ConsumeReturn

NextCapture ==
    \/ \E ok \in BOOLEAN : RecorderStart(ok)
    \/ RecorderStop
    \/ \E d \in CaptureInputs : CaptureCallback(d)
    \/ GetAudioChunk

LifeInputs == { Malformed, Msg(TRUE, T_OTHER, FALSE, <<>>, <<>>) }

\* The connection's life: the caller connects and disconnects in any order,
\* the peer closes or fails, the handler reads.
SpecLife == Init /\ [][NextLife(LifeInputs)]_vars

\* The connection's life with the caller sending.
SpecSend == Init /\ [][NextLife({Malformed}) \/ NextSend]_vars

RecvInputs ==
    TranscriptMessages \cup IgnoredMessages
        \cup { Msg(TRUE, T_AUDIO, TRUE, <<>>, <<1, 0>>),
               Msg(TRUE, T_TRANSCRIPT, FALSE, <<>>, <<>>),
               Msg(TRUE, NoType, FALSE, <<>>, <<>>),
               Malformed }

NextRecv ==
    \/ ConnectCall
    \/ ConnectOk
    \/ \E t \in Tasks : DisconnectClosed(t)
    \/ \E t \in Tasks : DisconnectAwaited(t)
    \/ \E t \in Tasks : DisconnectSelfResume(t)
    \/ \E t \in Tasks : CancelDeliver(t)
    \/ \E c \in 1..MaxConn : ConnectionLost(c)
    \/ \E t \in Tasks : HandlerLoop(t)
    \/ \E t \in Tasks : RecvTimeout(t)
    \/ \E t \in Tasks : RecvClosed(t)
    \/ \E t \in Tasks, m \in RecvInputs : RecvMessage(t, m)
    \/ NextAppend

\* The handler receiving every kind of server message; the caller only connects.
SpecRecv == Init /\ [][NextRecv]_vars

NextPlayback ==
    \/ ConnectCall
    \/ ConnectOk
    \/ \E t \in Tasks : HandlerLoop(t)
    \/ \E t \in Tasks, m \in AudioMessages : RecvMessage(t, m)
    \/ NextAppend
    \/ NextConsume

\* The playback buffer: audio deltas appended by the event-loop thread while
\* the playback thread consumes.
SpecPlayback == Init /\ [][NextPlayback]_vars

\* The capture recorder.
SpecCapture == Init /\ [][NextCapture]_vars

NextSendOrder ==
    \/ ConnectCall
    \/ ConnectOk
    \/ DisconnectCall
    \/ DisconnectClosed(Caller)
    \/ DisconnectAwaited(Caller)
    \/ \E t \in Tasks : CancelDeliver(t)
    \/ \E c \in 1..MaxConn : ConnectionLost(c)
    \/ \E t \in Tasks : HandlerLoop(t)
    \/ \E t \in Tasks : RecvClosed(t)
    \/ NextSend

\* The caller connecting, sending and disconnecting while connections are
\* lost; the peer sends nothing.
SpecSendOrder == Init /\ [][NextSendOrder]_vars

\* ---- the orchestrator, app.py:137-159: initialize_client.  Its steps use
\* the steps of the library (DoConnectCall, ...) and set the session state.
\* What str(e) (app.py:159) is for the exceptions connect() raises: the text of
\* a refused handshake, and the empty text of a handshake that timed out.
ConnectErrors == { "server rejected WebSocket connection", "" }

\* app.py:125-131
SessionUpdate == [type |-> "session.update", data |-> "dict"]

\* app.py:138-145: the client is created and connect() submitted
InitializeClient ==
    /\ client = "none"
    /\ DoConnectCall
    /\ client' = "connecting"
    /\ UNCHANGED <<connected, connection_error, recording, script>>

\* app.py:145, 157-159: connect() raised
InitConnectFail(msg) ==
    /\ client = "connecting"
    /\ DoConnectFail
    /\ connected' = FALSE
    /\ connection_error' = msg
    /\ client' = "ready"
    /\ UNCHANGED <<recording, script>>

\* app.py:145: connect() returned
InitConnected ==
    /\ client = "connecting"
    /\ DoConnectOk
    /\ client' = "check"
    /\ UNCHANGED <<connected, connection_error, recording, script>>

\* app.py:146-156, on the caller thread
InitCheck ==
    /\ client = "check"
    /\ IF is_connected
       THEN /\ connected' = TRUE
            /\ client' = "update"
            /\ UNCHANGED connection_error
       ELSE /\ connected' = FALSE
            /\ connection_error' = "Unknown error during connection."
            /\ client' = "ready"
    /\ outcome' = NoResult
    /\ UNCHANGED <<connVars, dataVars, sendVars, got, playVars, capVars, recording, script>>

\* app.py:151 with app.py:123-133 and app.py:157-159: ws.send on the loop; on
\* a connection no longer open it raises, and the exception is stored
InitSessionUpdate ==
    /\ client = "update"
    /\ Submit
    /\ IF ws # 0 /\ SendWrites(ws)
       THEN /\ wire' = Append(wire, <<ws, SessionUpdate>>)
            /\ UNCHANGED <<connected, connection_error>>
       ELSE /\ connected' = FALSE
            /\ connection_error' = "connection closed"
            /\ UNCHANGED wire
    /\ client' = "ready"
    /\ outcome' = NoResult
    /\ UNCHANGED <<connVars, dataVars, ready, pending, sent, got, playVars, capVars,
                   recording, script>>

NextInitialize ==
    \/ InitializeClient
    \/ \E msg \in ConnectErrors : InitConnectFail(msg)
    \/ InitConnected
    \/ InitCheck
    \/ InitSessionUpdate

\* What the peer, the network and the handler task do once connected.
NextServed(M) ==
    \/ \E c \in 1..MaxConn : ServerClose(c)
    \/ \E c \in 1..MaxConn : ConnectionLost(c)
    \/ \E t \in Tasks : HandlerLoop(t)
    \/ \E t \in Tasks : RecvTimeout(t)
    \/ \E t \in Tasks : RecvClosed(t)
    \/ \E t \in Tasks, m \in M : RecvMessage(t, m)
    \/ \E t \in Tasks : DisconnectClosed(t)
    \/ \E t \in Tasks : DisconnectSelfResume(t)

\* The orchestrator starting up: initialize_client, then the connection served
\* until the peer closes it, it is lost, or the handler gives up.
SpecInitialize ==
    Init /\ [][NextInitialize \/ NextServed(LifeInputs)]_vars

\* ---- the orchestrator recording, app.py:166-200, on the script thread, which
\* runs one callback or fragment at a time
\* app.py:176, app.py:178 and app.py:197
Commit == [type |-> "input_audio_buffer.commit", data |-> "none"]
ResponseCreate == [type |-> "response.create", data |-> "dict"]
AudioAppend == [type |-> "input_audio_buffer.append", data |-> "dict"]

\* client.send(arg): utils.py:110-119.  An exception of
\* send() is not caught by the orchestrator and ends the callback or fragment.
AppSendCall(arg, mid) ==
    /\ DoSendCall(arg)
    /\ script' = IF pc'[Caller] = "sending" THEN mid ELSE "idle"
    /\ UNCHANGED <<client, connected, connection_error, recording>>

\* the rest of that send(): utils.py:121-123
AppSendSchedule(to) ==
    /\ DoSendSchedule
    /\ script' = IF ws = 0 THEN "idle" ELSE to
    /\ UNCHANGED <<client, connected, connection_error, recording>>

\* app.py:166-169; the button is there when connected is set (app.py:330)
AppStartRecording(deviceOk) ==
    /\ client = "ready"
    /\ connected
    /\ script = "idle"
    /\ ~recording
    /\ recording' = TRUE
    /\ DoRecorderStart(deviceOk)
    /\ UNCHANGED <<client, connected, connection_error, script>>

\* app.py:172-175
AppStopRecording ==
    /\ client = "ready"
    /\ connected
    /\ script = "idle"
    /\ recording
    /\ recording' = FALSE
    /\ DoRecorderStop
    /\ script' = "commit"
    /\ UNCHANGED <<client, connected, connection_error>>

\* app.py:176
AppStopCommit ==
    /\ script = "commit"
    /\ AppSendCall(Commit, "commit_task")

AppStopCommitTask ==
    /\ script = "commit_task"
    /\ AppSendSchedule("create")

\* app.py:178-180
AppStopCreate ==
    /\ script = "create"
    /\ AppSendCall(ResponseCreate, "create_task")

AppStopCreateTask ==
    /\ script = "create_task"
    /\ AppSendSchedule("idle")

\* app.py:193-195: audio_recorder, run every second, takes the next chunk
AppRecorderTake ==
    /\ client = "ready"
    /\ \/ script = "idle" /\ recording
       \/ script = "drain"
    /\ audio_queue # <<>>
    /\ DoGetAudioChunk
    /\ script' = "append"
    /\ UNCHANGED <<client, connected, connection_error, recording>>

\* app.py:196-200
AppRecorderAppend ==
    /\ script = "append"
    /\ AppSendCall(AudioAppend, "append_task")

AppRecorderAppendTask ==
    /\ script = "append_task"
    /\ AppSendSchedule("drain")

\* app.py:194: the queue is empty, the fragment returns
AppRecorderDone ==
    /\ script = "drain"
    /\ audio_queue = <<>>
    /\ script' = "idle"
    /\ outcome' = NoResult
    /\ UNCHANGED <<connVars, dataVars, sendVars, got, playVars, capVars,
                   client, connected, connection_error, recording>>

NextRecording ==
    \/ \E ok \in BOOLEAN : AppStartRecording(ok)
    \/ AppStopRecording
    \/ AppStopCommit
    \/ AppStopCommitTask
    \/ AppStopCreate
    \/ AppStopCreateTask
    \/ AppRecorderTake
    \/ AppRecorderAppend
    \/ AppRecorderAppendTask
    \/ AppRecorderDone
    \/ \E d \in CaptureInputs : CaptureCallback(d)
    \/ RunSendTask

\* The orchestrator started, then recording sessions while the connection is
\* served, closed by the peer or lost.
SpecRecording ==
    Init /\ [][NextInitialize \/ NextServed({Malformed}) \/ NextRecording]_vars

AudioInputs ==
    AudioMessages \cup { Msg(TRUE, T_TRANSCRIPT, TRUE, <<"a">>, <<>>),
                         Msg(TRUE, T_OTHER, FALSE, <<>>, <<>>) }

NextAudio ==
    \/ ConnectCall
    \/ ConnectOk
    \/ \E t \in Tasks : HandlerLoop(t)
    \/ \E t \in Tasks, m \in AudioInputs : RecvMessage(t, m)
    \/ NextAppend
    \/ NextConsume

\* Audio deltas received among other events, appended to the playback buffer
\* while the playback thread consumes.
SpecAudio == Init /\ [][NextAudio]_vars

\* ---- the playback callback firing for ever: app.py:67-76 as above, without
\* the history of the frames returned, which would bound the run.
\* app.py:70
PlayAcquire(count) ==
    /\ ppc = "idle"
    /\ LockFree
    /\ buffer_lock' = "play"
    /\ ppc' = "cs"
    /\ pcount' = count
    /\ outcome' = NoResult
    /\ UNCHANGED <<connVars, dataVars, sendVars, got, capVars, audio_buffer, apc, achunk, atmp, pdata, appended, played>>
    /\ UNCHANGED appVars

\* app.py:71-75
PlayBody ==
    /\ ppc = "cs"
    /\ pdata' = FrameData(audio_buffer, pcount)
    /\ audio_buffer' = FrameRest(audio_buffer, pcount)
    /\ ppc' = "out"
    /\ outcome' = NoResult
    /\ UNCHANGED <<connVars, dataVars, sendVars, got, capVars, buffer_lock, apc, achunk, atmp, pcount, appended, played>>
    /\ UNCHANGED appVars

\* The frame count of every callback of one stream (frames_per_buffer,
\* app.py:84), scaled down.
FrameCount == MaxCount

NextPlayLive ==
    \/ ConnectCall
    \/ ConnectOk
    \/ \E t \in Tasks : HandlerLoop(t)
    \/ \E t \in Tasks, m \in AudioMessages : RecvMessage(t, m)
    \/ NextAppend
    \/ PlayAcquire(FrameCount)
    \/ PlayBody
    \/ ConsumeReturn

\* The playback thread keeps calling the callback with the same frame count,
\* neither thread stops inside its critical section, and the loop thread
\* waiting for the lock gets it at some release (strong fairness: the lock is
\* free again and again, never continuously).
SpecPlayLive ==
    /\ Init
    /\ [][NextPlayLive]_vars
    /\ WF_vars(PlayAcquire(FrameCount))
    /\ WF_vars(PlayBody)
    /\ WF_vars(ConsumeReturn)
    /\ SF_vars(NextAppend)

\* ------------------------------------------------------------- claims
IsPrefix(s, t) == Len(s) <= Len(t) /\ SubSeq(t, 1, Len(s)) = s

Events(pairs) == [i \in 1..Len(pairs) |-> pairs[i][2]]
WireOf(c) == Events(SelectSeq(wire, LAMBDA e : e[1] = c))
SentOf(c) == Events(SelectSeq(sent, LAMBDA e : e[1] = c))
ReadyFor(c) ==
    LET r == SelectSeq(ready, LAMBDA e : e.conn = c)
    IN [i \in 1..Len(r) |-> r[i].event]

\* C1: the events written to a connection are, in order, the events whose
\* send() call scheduled a write on it: what is written is always a prefix of
\* what was sent, and while the connection is open the written events followed
\* by the ones still waiting are exactly the sent ones (none dropped,
\* duplicated or reordered).
C1_SendOrder ==
    \A c \in 1..MaxConn :
        /\ IsPrefix(WireOf(c), SentOf(c))
        /\ conn[c] = "OPEN" => WireOf(c) \o ReadyFor(c) = SentOf(c)

\* C1 witness: two different events were sent on one open connection and both
\* are written.
C1_Witness ==
    \E c \in 1..MaxConn :
        /\ conn[c] = "OPEN"
        /\ Len(WireOf(c)) = 2
        /\ WireOf(c)[1] # WireOf(c)[2]
        /\ WireOf(c) = SentOf(c)

\* A step in which the caller's send() call ran utils.py:110-119.
SendCallStep ==
    /\ pc[Caller] = "idle"
    /\ pc'[Caller] = "sending" \/ outcome'.op = "send"

\* C2 (first sentence): a send() call made while is_connected() is false
\* reports NotConnected and neither logs the event nor schedules a write.
C2_NotConnected ==
    [][SendCallStep /\ ~is_connected =>
          /\ outcome' = Result("send", "NotConnected")
          /\ UNCHANGED <<logs, pending, ready, sent, wire>>]_vars

\* C2: send() while not connected reports NotConnected without logging or
\* scheduling, and no step writes an event to the network while
\* is_connected() is false.
C2_NoWriteUnlessConnected ==
    [][/\ SendCallStep /\ ~is_connected =>
             /\ outcome' = Result("send", "NotConnected")
             /\ UNCHANGED <<logs, pending, ready, sent, wire>>
       /\ wire' # wire => is_connected]_vars

\* C2 (the write of a scheduled task): an event is written only to a
\* connection that is open at the write, whatever happened since the check.
C2_WriteOnOpen ==
    [][wire' # wire => conn[wire'[Len(wire')][1]] = "OPEN"]_vars

Running(t) == pc[t] \in {"new", "next", "loop", "recv"}

\* C3 (first sentence): connect() while is_connected() is true reports
\* AlreadyConnected and leaves the handle and the handler task as they were.
C3_AlreadyConnected ==
    [][pc[Caller] = "idle" /\ is_connected /\ outcome'.op = "connect" =>
          /\ outcome' = Result("connect", "AlreadyConnected")
          /\ UNCHANGED <<ws, conn, handlerTask, pc>>]_vars

\* C3: in every reachable state at most one connection is open and at most
\* one receive loop is running.
C3_AtMostOne ==
    /\ Cardinality({c \in 1..MaxConn : conn[c] = "OPEN"}) <= 1
    /\ Cardinality({t \in Tasks : Running(t)}) <= 1

RECURSIVE Concat(_)
Concat(ss) == IF ss = <<>> THEN <<>> ELSE Head(ss) \o Concat(Tail(ss))

\* The deltas of the transcript events received, in order of receipt.
TranscriptDeltas ==
    LET ev == SelectSeq(got, LAMBDA m : m.json /\ m.type = T_TRANSCRIPT /\ m.present)
    IN [i \in 1..Len(ev) |-> ev[i].text]

\* C4: in every state the transcript is the concatenation, in order of
\* receipt, of the deltas of the transcript events received so far and of
\* nothing else, and every step leaves the previous transcript a prefix of the
\* new one.
C4_Transcript ==
    /\ [](transcript = Concat(TranscriptDeltas))
    /\ [][IsPrefix(transcript, transcript')]_vars

\* C4 witness: two transcript deltas were received and the transcript is the
\* first followed by the second.
C4_Witness ==
    /\ Len(TranscriptDeltas) = 2
    /\ TranscriptDeltas[1] # TranscriptDeltas[2]
    /\ transcript = TranscriptDeltas[1] \o TranscriptDeltas[2]

\* C5: a consume of count samples from a buffer holding k < count samples
\* returns those k samples followed by count - k zeros.
C5_UnderrunDelivers ==
    \A i \in 1..Len(played) :
        LET k == Len(played[i].had)
            count == Len(played[i].data)
        IN k < count => played[i].data = played[i].had \o Zeros(count - k)

\* The samples the consumer took out of the buffer, in the order taken.
Consumed ==
    LET r == SelectSeq(played, LAMBDA p : p.real)
    IN Concat([i \in 1..Len(r) |-> r[i].data])

InAppend == apc \in {"concat", "store"}
InConsume == ppc \in {"cs", "out"}

\* C6: the append of the event-loop thread and the consume of the playback
\* thread are never inside their critical sections together, the lock is held
\* exactly while one of them is, and the samples consumed followed by the
\* samples in the buffer (and by the chunk an append in progress has yet to
\* store) are exactly the samples appended, in order: none lost, none twice.
C6_BufferLock ==
    /\ ~(InAppend /\ InConsume)
    /\ buffer_lock = "loop" <=> InAppend
    /\ buffer_lock = "play" <=> InConsume
    /\ Consumed \o audio_buffer \o (IF InAppend THEN achunk ELSE <<>>) = appended

\* C6 witness: the consumer, inside its critical section, has taken a frame
\* out of the buffer while an append waits for the lock.
C6_Witness ==
    /\ apc = "acquire"
    /\ ppc = "out"
    /\ played[Len(played)].real
    /\ buffer_lock = "play"

\* C7: in the state a disconnect() call has just returned to (the caller's or
\* the handler's own), the connection handle is cleared, is_connected() is
\* false and the handler task handle is cleared.
C7_DisconnectClears ==
    outcome.op \in {"disconnect", "handler_disconnect"} =>
        ws = 0 /\ ~is_connected /\ handlerTask = 0

\* C7 (the caller's calls): the same, for the disconnect() calls of the caller.
C7_CallerDisconnectClears ==
    outcome.op = "disconnect" => ws = 0 /\ ~is_connected /\ handlerTask = 0

\* C8: a handler that receives a message that is not JSON stays in its
\* receive loop and leaves its connection as it was.
C8_MalformedSkipped ==
    [][\A t \in Tasks :
          (pc[t] = "recv" /\ pc'[t] # "recv" /\ Len(got') > Len(got)
              /\ ~got'[Len(got')].json)
          => Running(t)' /\ conn' = conn]_vars

\* The frames get_audio_chunk returned, in the order returned.
Returned ==
    LET r == SelectSeq(chunks, LAMBDA c : ~c.none)
    IN [i \in 1..Len(r) |-> r[i].frame]

\* C9: the frames get_audio_chunk returned followed by the frames still queued
\* are exactly the frames captured, in capture order, whether or not the
\* recorder was stopped in between; a call returns None exactly when the
\* queue was empty at the call.
C9_CaptureFifo ==
    /\ Returned \o audio_queue = captured
    /\ \A i \in 1..Len(chunks) : chunks[i].none <=> chunks[i].queued = 0

\* C9 witness: three frames, not all alike, were captured; after the recorder
\* was stopped get_audio_chunk returned frames and then, the queue empty, None.
C9_Witness ==
    /\ ~is_recording
    /\ Len(captured) = 3
    /\ captured[1] # captured[2]
    /\ Returned = captured
    /\ Len(chunks) = 4
    /\ ~chunks[2].rec /\ ~chunks[3].rec
    /\ chunks[4].none

\* C10: in the state a disconnect() call has just returned to, no handler
\* task is running or waiting to run.
C10_HandlerStopped ==
    outcome.op \in {"disconnect", "handler_disconnect"} =>
        \A t \in Tasks : pc[t] \in {"none", "done", "cancelled"}

\* C10 (the caller's calls): in the state a disconnect() call of the caller
\* has just returned to, no handler task is running or waiting to run.
C10_CallerHandlerStopped ==
    outcome.op = "disconnect" =>
        \A t \in Tasks : pc[t] \in {"none", "done", "cancelled"}

\* A step in which handler task t took message got'[Len(got')] from recv().
Received(t) == pc[t] = "recv" /\ pc'[t] # "recv" /\ Len(got') > Len(got)

\* What C11 asks of a step that received an event outside the two delta
\* types: logged, nothing else changed, the handler and connection go on.
LoggedOnly(t) ==
    /\ logs' = Append(logs, <<"server", got'[Len(got')]>>)
    /\ transcript' = transcript
    /\ UNCHANGED <<audio_buffer, apc, achunk, appended>>
    /\ Running(t)'
    /\ conn' = conn

\* C11: a decoded event whose type is neither of the two delta types, an
\* event without a type included, is logged only: transcript and playback
\* buffer unchanged, receive loop and connection still running.
C11_OthersLoggedOnly ==
    [][\A t \in Tasks :
          (Received(t) /\ got'[Len(got')].json
              /\ got'[Len(got')].type \notin {T_TRANSCRIPT, T_AUDIO})
          => LoggedOnly(t)]_vars

\* C11 (events that have a type): the same for the events that carry a type,
\* response.audio.done among them.
C11_TypedLoggedOnly ==
    [][\A t \in Tasks :
          (Received(t) /\ got'[Len(got')].json
              /\ got'[Len(got')].type \notin {T_TRANSCRIPT, T_AUDIO, NoType})
          => LoggedOnly(t)]_vars

\* Nothing of the client is in progress: initialize_client is over and every
\* handler task created has ended.
Settled == client = "ready" /\ \A t \in Tasks : pc[t] \in {"none", "done", "cancelled"}

\* C12 (every state): the connected flag of the orchestrator is true only
\* while the client is connected.
C12_FlagTruthful == connected => is_connected

\* C12: once the connection is closed and the receive loop has ended, the
\* connected flag of the orchestrator is false; it is never left true with the
\* client not connected.
C12_FlagFollowsClose == (Settled /\ connected) => is_connected

HandshakeFailed == client = "ready" /\ \A c \in 1..MaxConn : conn[c] = "NONE"

\* C14: after a failed handshake the client is not connected, no handler task
\* was started, the connected flag is false and the connection error is a
\* message that is not empty.
C14_FailureSurfaced ==
    HandshakeFailed =>
        /\ ~is_connected
        /\ \A t \in Tasks : pc[t] = "none"
        /\ ~connected
        /\ connection_error \notin {"None", ""}

\* C14 (without the message's text): the same, with a connection error that
\* is set, possibly to the empty text.
C14_FailureRecorded ==
    HandshakeFailed =>
        /\ ~is_connected
        /\ \A t \in Tasks : pc[t] = "none"
        /\ ~connected
        /\ connection_error # "None"

\* The samples of the audio deltas received, in order of receipt.
AudioDecoded ==
    LET ev == SelectSeq(got, LAMBDA m : m.json /\ Dispatch(m) = "audio")
    IN Concat([i \in 1..Len(ev) |-> FromBuffer(ev[i].bytes)])

\* C15: the samples consumed, followed by the samples in the playback buffer
\* and by the chunk of an append that has not stored yet, are exactly the
\* decoded samples of the audio deltas received, in order of receipt, each
\* once, whatever other events came in between.
C15_AudioInOrder ==
    Consumed \o audio_buffer \o (IF apc # "idle" THEN achunk ELSE <<>>) = AudioDecoded

\* C15 witness: an audio delta, another event and a different audio delta
\* were received or, with fewer events, two different audio deltas, and the
\* buffer holds the samples of the first followed by those of the second.
C15_Witness ==
    /\ apc = "idle"
    /\ \E i, j \in 1..Len(got) :
          /\ i < j
          /\ got[i].type = T_AUDIO /\ got[j].type = T_AUDIO
          /\ got[i] # got[j]
          /\ audio_buffer = FromBuffer(got[i].bytes) \o FromBuffer(got[j].bytes)

\* A step of send() (utils.py:109-123), which the orchestrator calls on its
\* own thread (app.py:176-180, app.py:197), not through run_async.
CallerThreadStep ==
    \/ SendCallStep
    \/ pc[Caller] = "sending" /\ pc'[Caller] = "idle"

\* C16: no step that runs on the caller thread changes the event log, the
\* transcript, the connection handle, the handler task handle or a
\* connection, or writes to the network.
C16_LoopOwnsState ==
    [][CallerThreadStep =>
          UNCHANGED <<logs, transcript, ws, handlerTask, conn, wire>>]_vars

\* C16 (without the event log): the same for the transcript, the handles, the
\* connections and the network.
C16_LoopOwnsConnection ==
    [][CallerThreadStep => UNCHANGED <<transcript, ws, handlerTask, conn, wire>>]_vars

\* C17: with the playback callback firing for ever, samples in the playback
\* buffer do not stay there for ever: a buffer that is not empty is empty
\* again later.
C17_BufferDrains == (audio_buffer # <<>>) ~> (audio_buffer = <<>>)

\* C17 (whole frames): a buffer holding at least one whole frame gets below
\* one frame later.
C17_FramesDrain == (Len(audio_buffer) >= FrameCount) ~> (Len(audio_buffer) < FrameCount)

\* The script thread is between two operations of the orchestrator.
ScriptIdle == script = "idle" /\ pc[Caller] = "idle"

\* The step in which send() accepts the commit of stop_recording.
CommitIssued == script = "commit" /\ pc'[Caller] = "sending"

\* C18: when stop-capture issues its commit, no captured frame is left in the
\* capture queue: every frame of the session was taken and sent before.
C18_QueueEmptyAtCommit == [][CommitIssued => audio_queue = <<>>]_vars

\* The events of the given type for which send() created a task.
SentType(type) == SelectSeq(sent, LAMBDA e : e[2].type = type)

\* C19: between two operations, stop-capture has issued as many commits as
\* response.creates (never one without the other), each commit directly
\* followed by its response.create.
C19_CommitWithCreate ==
    ScriptIdle =>
        /\ Len(SentType(Commit.type)) = Len(SentType(ResponseCreate.type))
        /\ \A i \in 1..Len(sent) :
              sent[i][2] = Commit => i < Len(sent) /\ sent[i + 1][2] = ResponseCreate

\* C19 (what holds): a response.create is only ever issued directly after a
\* commit, and once stop-capture has begun recording is false and the input
\* stream released.
C19_CreateAfterCommit ==
    /\ \A i \in 1..Len(sent) :
          sent[i][2] = ResponseCreate => i > 1 /\ sent[i - 1][2] = Commit
    /\ script \in {"commit", "commit_task", "create", "create_task"} =>
          ~recording /\ ~is_recording /\ stream = "none"

\* C20: between two operations, the orchestrator's recording flag equals the
\* recorder's is_recording, and an input stream is open exactly when they are
\* true.
C20_FlagsAgree ==
    ScriptIdle => recording = is_recording /\ (stream = "open" <=> recording)

\* C20 (what holds): the recorder's own flag and its stream agree, and the
\* recorder never records while the orchestrator's flag is false.
C20_RecorderConsistent ==
    /\ is_recording <=> stream = "open"
    /\ is_recording => recording
====
